---- MODULE Spec2Model ----
(***************************************************************************)
(* The Data Science Jobs dashboard (src/app_02.py): one Streamlit script   *)
(* that loads DataScientist.csv, derives the salary columns, drops the     *)
(* rows with missing critical data, filters by the sidebar widgets and     *)
(* renders metrics, three charts and a paginated table.  Streamlit runs    *)
(* the whole script again on every widget change, so every action below is *)
(* one complete run of the script with the widget values of that run.      *)
(*                                                                         *)
(* Encoding.  A missing cell (pandas NaN) of a text column is the empty    *)
(* string, as read_csv reads an empty field; the Salary Estimate cell is a *)
(* sequence of one-character strings (<<>> when missing) so that the       *)
(* regular expressions are matched character by character; a numeric cell  *)
(* is <<>> (NaN) or <<v>>.  Ratings are kept in tenths (4.5 is 45), so the *)
(* slider's step of 0.5 is 5.                                             *)
(***************************************************************************)
EXTENDS Integers, Sequences, FiniteSets, TLC

VARIABLES file, status, df, df_clean, selected_sectors, selected_sizes,
          min_rating, page_size, page_number, filtered_df, out

vars == <<file, status, df, df_clean, selected_sectors, selected_sizes,
          min_rating, page_size, page_number, filtered_df, out>>

(***************************************************************************)
(* Bounds of the model.                                                    *)
(***************************************************************************)
MaxRows == 2

MaxLen == 7

MaxDigits == 4

MaxPageRows == 11

MaxTopRows == 12

(***************************************************************************)
(* pandas NaN / Python None, and small helpers.                            *)
(***************************************************************************)
NaN == <<>>

isna(x) == x = NaN

notna(x) == x # NaN

Val(x) == x[1]

Min2(a, b) == IF a <= b THEN a ELSE b

Range(s) == {s[i] : i \in 1..Len(s)}

RECURSIVE SumSeq(_)
SumSeq(s) == IF s = <<>> THEN 0 ELSE Head(s) + SumSeq(Tail(s))

(***************************************************************************)
(* Salary extraction (lines 62-64).                                        *)
(***************************************************************************)
Digits == <<"0", "1", "2", "3", "4", "5", "6", "7", "8", "9">>

\* \d
IsDigit(c) == c \in Range(Digits)

DigitVal(c) == (CHOOSE d \in 1..Len(Digits) : Digits[d] = c) - 1

\* int()/float() of a run of decimal digits
RECURSIVE ToNumber(_)
ToNumber(ds) ==
    IF ds = <<>> THEN 0
    ELSE 10 * ToNumber(SubSeq(ds, 1, Len(ds) - 1)) + DigitVal(ds[Len(ds)])

\* the number of digits of s from position i on, before the first non-digit
RECURSIVE DigitRun(_, _)
DigitRun(s, i) ==
    IF i > Len(s) \/ ~IsDigit(s[i]) THEN 0 ELSE 1 + DigitRun(s, i + 1)

\* \d+ matches at i
NumberAt(s, i) == DigitRun(s, i) >= 1

\* the leftmost position from i on at which \d+ matches, 0 when none
RECURSIVE LeftmostNumber(_, _)
LeftmostNumber(s, i) ==
    IF i > Len(s) THEN 0
    ELSE IF NumberAt(s, i) THEN i
    ELSE LeftmostNumber(s, i + 1)

\* re.search('(\d+)'): the leftmost position where \d+ matches, and there the
\* longest run (greedy); <<>> when no position matches.
NumberFrom(s, i) ==
    IF i = 0 THEN NaN ELSE <<ToNumber(SubSeq(s, i, i + DigitRun(s, i) - 1))>>

ExtractFirstNumber(s) == NumberFrom(s, LeftmostNumber(s, 1))

\* s has character c at position i
At(s, i, c) == i <= Len(s) /\ s[i] = c

\* \$(\d+)K-\$(\d+)K matches s at position i with groups of d1 and d2 digits
RangeFits(s, i, d1, d2) ==
    /\ At(s, i, "$")
    /\ d1 >= 1 /\ d1 <= DigitRun(s, i + 1)
    /\ At(s, i + d1 + 1, "K")
    /\ At(s, i + d1 + 2, "-")
    /\ At(s, i + d1 + 3, "$")
    /\ d2 >= 1 /\ d2 <= DigitRun(s, i + d1 + 4)
    /\ At(s, i + d1 + d2 + 4, "K")

\* the pairs <<d1, d2>> of group lengths with which the pattern matches at i:
\* a \d+ may stop before the end of a run of digits (backtracking)
RangeFitsAt(s, i) ==
    IF ~At(s, i, "$") THEN {}
    ELSE UNION { {<<d1, d2>> : d2 \in {e \in 1..DigitRun(s, i + d1 + 4) :
                                          RangeFits(s, i, d1, e)}} :
                 d1 \in 1..DigitRun(s, i + 1) }

\* each \d+ is greedy: the first group as long as it can be, then the second
Greedy(F) ==
    CHOOSE a \in F : \A b \in F : a[1] > b[1] \/ (a[1] = b[1] /\ a[2] >= b[2])

Groups(s, i, d) ==
    << SubSeq(s, i + 1, i + d[1]), SubSeq(s, i + d[1] + 4, i + d[1] + d[2] + 3) >>

\* the groups of the leftmost match from position i on, <<>> when none
RECURSIVE SearchRange(_, _)
MatchOrOn(s, i, F) ==
    IF F # {} THEN Groups(s, i, Greedy(F)) ELSE SearchRange(s, i + 1)

SearchRange(s, i) ==
    IF i > Len(s) THEN NaN ELSE MatchOrOn(s, i, RangeFitsAt(s, i))

\* re.search(r'\$(\d+)K-\$(\d+)K'): the two captured groups of the leftmost
\* match, <<>> when there is no match.
ExtractRange(s) == SearchRange(s, 1)

Scaled(m) == IF isna(m) THEN NaN ELSE <<Val(m) * 1000>>

\* line 62: .str.extract('(\d+)').astype(float) * 1000 (NaN stays NaN)
Salary_Min(s) ==
    IF isna(s) THEN NaN ELSE Scaled(ExtractFirstNumber(s))

\* .iloc[:, 0]: the first captured group
FirstGroup(m) == IF isna(m) THEN NaN ELSE <<ToNumber(m[1])>>

\* .iloc[:, 1]: the second captured group
SecondGroup(m) == IF isna(m) THEN NaN ELSE <<ToNumber(m[2])>>

\* line 63: .str.extract(r'\$(\d+)K-\$(\d+)K').iloc[:, 1].astype(float) * 1000
Salary_Max(s) ==
    IF isna(s) THEN NaN ELSE Scaled(SecondGroup(ExtractRange(s)))

\* the mean of the operands that are defined
AvgOfDefined(lo, hi) ==
    IF isna(lo) THEN hi
    ELSE IF isna(hi) THEN lo
    ELSE <<(Val(lo) + Val(hi)) \div 2>>

\* line 64: (Salary_Min + Salary_Max) / 2; NaN propagates through + and /.
\* Both operands are multiples of 1000, so the half is an integer.
Avg_Salary(lo, hi) ==
    IF isna(lo) \/ isna(hi) THEN NaN ELSE <<(Val(lo) + Val(hi)) \div 2>>

(***************************************************************************)
(* The CSV file and the data frame.  A frame is its set of column names    *)
(* and its rows in file order; a row carries the index label idx of        *)
(* index_col=0 and one cell per modelled column.  Location and Revenue are *)
(* only ever copied to the table and the export, so their cells are not    *)
(* modelled, only their presence among the columns.                        *)
(***************************************************************************)
AllColumns == {"Job Title", "Company Name", "Location", "Salary Estimate",
               "Rating", "Sector", "Size", "Revenue"}

Frame(cols, rows) == [columns |-> cols, rows |-> rows]

\* lines 41-53: None when the file does not exist or read_csv raises
load_data(f) ==
    IF ~f.exists THEN NaN
    ELSE IF ~f.parseable THEN NaN
    ELSE <<Frame(f.columns, f.rows)>>

\* read_csv gives a column whose cells are all empty the dtype float64, and
\* .str raises AttributeError on it; a frame without rows has object columns
StrAccessorRaises(rows) ==
    /\ rows # <<>>
    /\ \A i \in 1..Len(rows) : isna(rows[i].SalaryEstimate)

\* lines 62-64 applied to one row
WithSalary(r, lo, hi) ==
    [idx |-> r.idx, JobTitle |-> r.JobTitle, CompanyName |-> r.CompanyName,
     Sector |-> r.Sector, Size |-> r.Size, Rating |-> r.Rating,
     SalaryEstimate |-> r.SalaryEstimate,
     Salary_Min |-> lo, Salary_Max |-> hi, Avg_Salary |-> Avg_Salary(lo, hi)]

Derive(r) == WithSalary(r, Salary_Min(r.SalaryEstimate), Salary_Max(r.SalaryEstimate))

RECURSIVE DeriveAll(_)
DeriveAll(rows) ==
    IF rows = <<>> THEN <<>> ELSE <<Derive(Head(rows))>> \o DeriveAll(Tail(rows))

\* the subset without 'Rating'
HasTitleAndSector(r) == r.JobTitle # "" /\ r.Sector # ""

\* the subset of line 67
HasCritical(r) == r.JobTitle # "" /\ r.Sector # "" /\ notna(r.Rating)

\* line 67: df.dropna(subset=['Job Title', 'Sector', 'Rating'])
dropna(rows) == SelectSeq(rows, HasCritical)

(***************************************************************************)
(* sorted(...unique()): the names the model uses, in alphabetical order.   *)
(***************************************************************************)
SectorNames == <<"S01", "S02", "S03", "S04", "S05", "S06", "S07", "S08",
                 "S09", "S10", "S11", "S12", "S13", "S14">>

SizeNames == <<"Large", "Medium", "Small", "Tiny">>

TitleNames == <<"T01", "T02", "T03", "T04", "T05", "T06", "T07", "T08",
                "T09", "T10", "T11", "T12", "T13", "T14">>

\* sorted(values) for values among names
Sorted(names, values) ==
    LET Keep(x) == x \in values IN SelectSeq(names, Keep)

\* line 73
sectors(clean) ==
    Sorted(SectorNames, {clean[i].Sector : i \in 1..Len(clean)} \ {""})

\* line 81
sizes(clean) ==
    Sorted(SizeNames, {clean[i].Size : i \in 1..Len(clean)} \ {""})

\* line 77: sectors[:3] if len(sectors) > 3 else sectors
FirstThreeIfMore(s) == IF Len(s) > 3 THEN SubSeq(s, 1, 3) ELSE s

DefaultSectors(clean) == Range(FirstThreeIfMore(sectors(clean)))

\* line 85: sizes if len(sizes) <= 3 else sizes[:3]
AllIfAtMostThree(s) == IF Len(s) <= 3 THEN s ELSE SubSeq(s, 1, 3)

DefaultSizes(clean) == Range(AllIfAtMostThree(sizes(clean)))

\* line 89: slider(min_value=0.0, max_value=5.0, value=3.0, step=0.5), in tenths
RatingMin == 0

RatingMax == 50

RatingStep == 5

RatingDefault == 30

RatingChoices == {r \in RatingMin..RatingMax : r % RatingStep = 0}

\* line 215: slider("Rows per page", 5, 50, 10)
PageSizeMin == 5

PageSizeMax == 50

PageSizeDefault == 10

(***************************************************************************)
(* The filter (lines 92-96): three boolean masks, and-ed, then boolean     *)
(* indexing, which keeps the rows in frame order.                          *)
(***************************************************************************)
\* Series.isin: NaN is in the list only when the list holds NaN
isin(x, values) == x \in values

\* the rating compared with > instead of >=
MaskStrict(r, sel_sectors, sel_sizes, minr) ==
    /\ isin(r.Sector, sel_sectors)
    /\ isin(r.Size, sel_sizes)
    /\ notna(r.Rating) /\ Val(r.Rating) > minr

Mask(r, sel_sectors, sel_sizes, minr) ==
    /\ isin(r.Sector, sel_sectors)
    /\ isin(r.Size, sel_sizes)
    /\ notna(r.Rating) /\ Val(r.Rating) >= minr

RECURSIVE ApplyMask(_, _, _, _)
ApplyMask(rows, sel_sectors, sel_sizes, minr) ==
    IF rows = <<>> THEN <<>>
    ELSE (IF Mask(Head(rows), sel_sectors, sel_sizes, minr)
          THEN <<Head(rows)>> ELSE <<>>)
         \o ApplyMask(Tail(rows), sel_sectors, sel_sizes, minr)

Filter(clean, sel_sectors, sel_sizes, minr) ==
    ApplyMask(clean, sel_sectors, sel_sizes, minr)

(***************************************************************************)
(* Aggregations.  A mean is NaN or the pair <<sum, count>> of the values   *)
(* it averages; two means are compared by cross-multiplication.            *)
(***************************************************************************)
\* Series.mean(): NaN cells are skipped, the mean of no cell is NaN
MeanOfPresent(present) ==
    IF present = <<>> THEN NaN
    ELSE <<SumSeq([i \in 1..Len(present) |-> Val(present[i])]), Len(present)>>

Mean(cells) == MeanOfPresent(SelectSeq(cells, notna))

MeanGreater(a, b) == a[1] * b[2] > b[1] * a[2]

MeanEqual(a, b) ==
    IF isna(a) \/ isna(b) THEN isna(a) /\ isna(b) ELSE a[1] * b[2] = b[1] * a[2]

Column(rows, Get(_)) == [i \in 1..Len(rows) |-> Get(rows[i])]

\* the distinct values of a column in the order in which they first occur
RECURSIVE Uniques(_)
Uniques(col) ==
    IF col = <<>> THEN <<>>
    ELSE <<Head(col)>> \o Uniques(SelectSeq(Tail(col), LAMBDA v : v # Head(col)))

CountOf(col, v) == Cardinality({i \in 1..Len(col) : col[i] = v})

RemoveAt(s, i) == SubSeq(s, 1, i - 1) \o SubSeq(s, i + 1, Len(s))

\* The orders in which a sort may leave equal keys.  sort_values sorts with
\* kind='quicksort', which is not stable: the model draws the outcome from
\* the order of first occurrence and its reverse.
TieOrders == {"first", "last"}

PickTie(best, tie) ==
    IF tie = "first" THEN CHOOSE i \in best : \A j \in best : i <= j
    ELSE CHOOSE i \in best : \A j \in best : i >= j

\* sort_values(ascending=False) of <<value, count>> pairs by count
RECURSIVE SortCounts(_, _)
\* ascending instead of descending
SmallestCounts(items) ==
    {i \in 1..Len(items) : \A j \in 1..Len(items) : items[i][2] <= items[j][2]}

LargestCounts(items) ==
    {i \in 1..Len(items) : \A j \in 1..Len(items) : items[i][2] >= items[j][2]}

CountsFrom(items, i, tie) == <<items[i]>> \o SortCounts(RemoveAt(items, i), tie)

SortCounts(items, tie) ==
    IF items = <<>> THEN <<>>
    ELSE CountsFrom(items, PickTie(LargestCounts(items), tie), tie)

RECURSIVE Counted(_, _)
Counted(present, u) ==
    IF u = <<>> THEN <<>>
    ELSE << <<Head(u), CountOf(present, Head(u))>> >> \o Counted(present, Tail(u))

CountsOfPresent(present, tie) == SortCounts(Counted(present, Uniques(present)), tie)

\* Series.value_counts(): NaN dropped, one <<value, count>> per distinct
\* value in the order of first occurrence, then sorted by count, descending
value_counts(col, tie) == CountsOfPresent(SelectSeq(col, LAMBDA v : v # ""), tie)

\* .head(n)
head(s, n) == SubSeq(s, 1, Min2(n, Len(s)))

\* line 127 and line 149
TopJobTitles == 10

TopSectors == 8

\* sort_values(ascending=False) of <<group, mean>> pairs by mean, NaN last
\* (na_position='last'), the NaN entries in their order before the sort
RECURSIVE SortMeans(_, _)
\* ascending instead of descending
SmallestMeans(items, defined) ==
    IF defined = {} THEN {1}
    ELSE {i \in defined : \A j \in defined : ~MeanGreater(items[i][2], items[j][2])}

LargestMeans(items, defined) ==
    IF defined = {} THEN {1}
    ELSE {i \in defined : \A j \in defined : ~MeanGreater(items[j][2], items[i][2])}

MeansFrom(items, i, tie) == <<items[i]>> \o SortMeans(RemoveAt(items, i), tie)

SortMeans(items, tie) ==
    IF items = <<>> THEN <<>>
    ELSE MeansFrom(items,
                   PickTie(LargestMeans(items, {i \in 1..Len(items) : notna(items[i][2])}),
                           tie),
                   tie)

GroupMembers(view, k) == SelectSeq(view, LAMBDA r : r.Size = k)

RECURSIVE GroupMeans(_, _)
GroupMeans(view, keys) ==
    IF keys = <<>> THEN <<>>
    ELSE << <<Head(keys),
              Mean(Column(GroupMembers(view, Head(keys)), LAMBDA r : r.Avg_Salary))>> >>
         \o GroupMeans(view, Tail(keys))

\* line 163: groupby('Size')['Avg_Salary'].mean(): one group per size that
\* occurs in the view (a NaN key forms no group), keys sorted
group_mean(view) == GroupMeans(view, sizes(view))

size_salary(view, tie) == SortMeans(group_mean(view), tie)

\* line 115: nunique() does not count NaN
nunique(col) == Cardinality(Range(col) \ {""})

(***************************************************************************)
(* The table (lines 193-230).                                              *)
(***************************************************************************)
display_columns == <<"Job Title", "Company Name", "Location", "Salary Estimate",
                     "Rating", "Sector", "Size", "Revenue">>

\* line 197
available_columns(cols) == SelectSeq(display_columns, LAMBDA c : c \in cols)

Cell(r, c) ==
    CASE c = "Job Title" -> r.JobTitle
      [] c = "Company Name" -> r.CompanyName
      [] c = "Salary Estimate" -> r.SalaryEstimate
      [] c = "Rating" -> r.Rating
      [] c = "Sector" -> r.Sector
      [] c = "Size" -> r.Size
      [] OTHER -> "unmodelled"

\* rows[available_columns]: the row without its index label
Project(r, avail) == [i \in 1..Len(avail) |-> Cell(r, avail[i])]

ProjectOnto(rows, avail) == [i \in 1..Len(rows) |-> Project(rows[i], avail)]

ProjectAll(rows, cols) == ProjectOnto(rows, available_columns(cols))

\* at least one page, also for no rows
total_pages_atleast1(n, ps) ==
    IF n = 0 THEN 1 ELSE (n \div ps) + (IF n % ps # 0 THEN 1 ELSE 0)

\* line 216
total_pages(n, ps) == (n \div ps) + (IF n % ps # 0 THEN 1 ELSE 0)

\* lines 220-221
start_idx(pn, ps) == (pn - 1) * ps

\* one row short
end_idx_short(pn, ps) == start_idx(pn, ps) + ps - 1

end_idx(pn, ps) == start_idx(pn, ps) + ps

\* .iloc[start:end]: a slice, cut at the end of the rows
iloc(rows, start, end) == SubSeq(rows, start + 1, Min2(end, Len(rows)))

\* lines 224-228: the rows of the page shown
PageRows(view, cols, pn, ps) ==
    iloc(ProjectAll(view, cols), start_idx(pn, ps), end_idx(pn, ps))

(***************************************************************************)
(* One run of the script.                                                  *)
(***************************************************************************)
DerivedColumns == {"Salary_Min", "Salary_Max", "Avg_Salary"}

\* The line at which a run over this frame raises (0: none).  A missing
\* column is a KeyError where the script first subscripts it: line 62, the
\* dropna of line 67, line 81 and line 115; available_columns (line 197)
\* guards the display columns, so Location and Revenue may be absent.
RaiseLine(frame) ==
    IF "Salary Estimate" \notin frame.columns THEN 62
    ELSE IF StrAccessorRaises(frame.rows) THEN 62
    ELSE IF ~({"Job Title", "Sector", "Rating"} \subseteq frame.columns) THEN 67
    ELSE IF "Size" \notin frame.columns THEN 81
    ELSE IF "Company Name" \notin frame.columns THEN 115
    ELSE 0

\* lines 62-64: df with the three derived columns
Preprocess(frame) ==
    Frame(frame.columns \cup DerivedColumns, DeriveAll(frame.rows))

\* line 219: range(1, total_pages + 1)
PageOptions(tp) == {p \in 1..tp : TRUE}

\* st.selectbox("Select Page", range(1, total_pages + 1)): the page of this
\* run is one of the requested pages that the selector offers; no selector
\* is rendered (0) when there are no pages (line 218)
PageChoice(tp, requested) ==
    IF tp = 0 THEN {0} ELSE requested \cap PageOptions(tp)

\* lines 98-230: what the run shows for the view; jc, sc and sm are the
\* three sorted aggregates
Rendered(frame, view, ps, pn, jc, sc, sm) ==
    [found           |-> Len(view),
     avg_rating      |-> Mean(Column(view, LAMBDA r : r.Rating)),
     avg_salary      |-> Mean(Column(view, LAMBDA r : r.Avg_Salary)),
     companies       |-> nunique(Column(view, LAMBDA r : r.CompanyName)),
     job_counts      |-> jc,
     sector_counts   |-> sc,
     size_salary     |-> sm,
     trend           |-> IF Len(sm) > 0 THEN "chart" ELSE "warning",
     csv             |-> ProjectAll(view, frame.columns),
     total_records   |-> Len(frame.rows),
     total_pages     |-> total_pages(Len(view), ps),
     page_options    |-> PageOptions(total_pages(Len(view), ps)),
     table           |-> IF pn = 0 THEN NaN
                         ELSE <<PageRows(view, frame.columns, pn, ps)>>]

\* line 127
job_counts(view, tie) ==
    head(value_counts(Column(view, LAMBDA r : r.JobTitle), tie), TopJobTitles)

\* line 149
sector_counts(view, tie) ==
    head(value_counts(Column(view, LAMBDA r : r.Sector), tie), TopSectors)

\* lines 98-230, the run having reached them: the page and the aggregates
\* (each sort leaves its ties in one of TieOrders)
Render(pre, view, ps, req_pages) ==
    /\ page_size' = ps
    /\ page_number' \in PageChoice(total_pages(Len(view), ps), req_pages)
    /\ \E jc \in {job_counts(view, t) : t \in TieOrders},
          sc \in {sector_counts(view, t) : t \in TieOrders},
          sm \in {size_salary(view, t) : t \in TieOrders} :
          out' = <<Rendered(pre, view, ps, page_number', jc, sc, sm)>>

\* lines 92-96, then the rest of the run; line: where the run raises (0: no)
RunFiltered(line, pre, clean, ss, sz, minr, view, ps, req_pages) ==
    /\ df_clean' = clean
    /\ selected_sectors' = ss
    /\ selected_sizes' = IF line = 81 THEN selected_sizes ELSE sz
    /\ min_rating' = IF line = 81 THEN min_rating ELSE minr
    /\ filtered_df' = IF line = 81 THEN filtered_df ELSE view
    /\ IF line # 0
       THEN UNCHANGED <<page_size, page_number, out>>
       ELSE Render(pre, view, ps, req_pages)

\* the filter applied to the view of the run before (an incremental update)
RunSelectedIncremental(line, pre, clean, ss, sz, minr, ps, req_pages) ==
    RunFiltered(line, pre, clean, ss, sz, minr,
                Filter(IF status = "init" THEN clean ELSE filtered_df, ss, sz, minr),
                ps, req_pages)

RunSelected(line, pre, clean, ss, sz, minr, ps, req_pages) ==
    RunFiltered(line, pre, clean, ss, sz, minr, Filter(clean, ss, sz, minr), ps, req_pages)

\* lines 69-89: the widgets return their defaults on the first run
RunWidgets(line, pre, clean, first, req_sectors, req_sizes, minr, ps, req_pages) ==
    RunSelected(line, pre, clean,
                IF first THEN DefaultSectors(clean) ELSE req_sectors,
                IF first THEN DefaultSizes(clean) ELSE req_sizes,
                minr, ps, req_pages)

\* lines 59-67 on the loaded frame
RunLoaded(frame, line, pre, first, req_sectors, req_sizes, minr, ps, req_pages) ==
    /\ status' = IF line = 0 THEN "rendered" ELSE "exception"
    /\ df' = IF line = 62 THEN <<frame>> ELSE <<pre>>
    /\ IF line \in {62, 67}
       THEN UNCHANGED <<df_clean, selected_sectors, selected_sizes, min_rating,
                        page_size, page_number, filtered_df, out>>
       ELSE RunWidgets(line, pre, dropna(pre.rows), first, req_sectors, req_sizes,
                       minr, ps, req_pages)

\* line 57 and the branch of line 59 / line 235
RunScript(loaded, first, req_sectors, req_sizes, minr, ps, req_pages) ==
    /\ UNCHANGED file
    /\ IF isna(loaded)
       THEN /\ status' = "nodata"
            /\ df' = NaN
            /\ UNCHANGED <<df_clean, selected_sectors, selected_sizes, min_rating,
                           page_size, page_number, filtered_df, out>>
       ELSE RunLoaded(Val(loaded), RaiseLine(Val(loaded)), Preprocess(Val(loaded)),
                      first, req_sectors, req_sizes, minr, ps, req_pages)

\* The script from line 57 to its end, with the widget values of this run.
\* first: the widgets return their defaults (no session state yet).
Run(first, req_sectors, req_sizes, minr, ps, req_pages) ==
    RunScript(load_data(file), first, req_sectors, req_sizes, minr, ps, req_pages)

(***************************************************************************)
(* Actions: the first run of a session, and one rerun per widget change.   *)
(* After "nodata" or an exception the page offers no widget of the model.  *)
(***************************************************************************)
FirstRun ==
    /\ status = "init"
    /\ Run(TRUE, {}, {}, RatingDefault, PageSizeDefault, {1})

\* a widget other than the page selector changed: the selector keeps its
\* page while it offers it, or starts again at page 1
KeptPages == {1, page_number}

ChangeSectors(S) ==
    /\ status = "rendered"
    /\ S \subseteq Range(sectors(df_clean))
    /\ S # selected_sectors
    /\ Run(FALSE, S, selected_sizes, min_rating, page_size, KeptPages)

ChangeSizes(S) ==
    /\ status = "rendered"
    /\ S \subseteq Range(sizes(df_clean))
    /\ S # selected_sizes
    /\ Run(FALSE, selected_sectors, S, min_rating, page_size, KeptPages)

ChangeMinRating(r) ==
    /\ status = "rendered"
    /\ r \in RatingChoices
    /\ r # min_rating
    /\ Run(FALSE, selected_sectors, selected_sizes, r, page_size, KeptPages)

ChangePageSize(ps) ==
    /\ status = "rendered"
    /\ ps \in PageSizeMin..PageSizeMax
    /\ ps # page_size
    /\ Run(FALSE, selected_sectors, selected_sizes, min_rating, ps, KeptPages)

ChangePage(pn) ==
    /\ status = "rendered"
    /\ pn \in Val(out).page_options
    /\ pn # page_number
    /\ Run(FALSE, selected_sectors, selected_sizes, min_rating, page_size, {pn})

(***************************************************************************)
(* Initial states: the file on disk, nothing run yet.                      *)
(***************************************************************************)
Row(i, t, c, sec, sz, rt, sal) ==
    [idx |-> i, JobTitle |-> t, CompanyName |-> c, Sector |-> sec, Size |-> sz,
     Rating |-> rt, SalaryEstimate |-> sal]

\* the rows of a file: the templates with their index labels 0, 1, ...
Indexed(templates) ==
    [i \in 1..Len(templates) |->
        Row(i - 1, templates[i].JobTitle, templates[i].CompanyName,
            templates[i].Sector, templates[i].Size, templates[i].Rating,
            templates[i].SalaryEstimate)]

SeqsUpTo(S, n) == UNION {[1..k -> S] : k \in 0..n}

MissingFile == [exists |-> FALSE, parseable |-> FALSE, columns |-> {}, rows |-> <<>>]

UnparseableFile == [exists |-> TRUE, parseable |-> FALSE, columns |-> {}, rows |-> <<>>]

CsvFile(cols, templates) ==
    [exists |-> TRUE, parseable |-> TRUE, columns |-> cols, rows |-> Indexed(templates)]

Start(f) ==
    /\ file = f
    /\ status = "init"
    /\ df = NaN
    /\ df_clean = <<>>
    /\ selected_sectors = {}
    /\ selected_sizes = {}
    /\ min_rating = RatingDefault
    /\ page_size = PageSizeDefault
    /\ page_number = 0
    /\ filtered_df = <<>>
    /\ out = NaN

\* Rows with every field present or missing in turn, two sectors, two sizes,
\* ratings below, at and above the slider's default
RowPool ==
    { Row(0, "T01", "Acme", "S01", "Large", <<37>>, <<"$", "1", "K", "-", "$", "2", "K">>),
      Row(0, "T01", "Beta", "S01", "Small", <<20>>, <<"$", "2", "K", "-", "$", "2", "K">>),
      Row(0, "T02", "Acme", "S02", "Large", <<30>>, <<>>),
      Row(0, "",    "Acme", "S01", "Large", <<40>>, <<"$", "1", "K", "-", "$", "2", "K">>),
      Row(0, "T02", "Beta", "",    "Small", <<35>>, <<"$", "2", "K", "-", "$", "2", "K">>),
      Row(0, "T01", "",     "S02", "Small", <<>>,   <<"$", "1", "K", "-", "$", "2", "K">>),
      Row(0, "T02", "Beta", "S02", "",      <<30>>, <<"1", "2">>) }

\* a CSV with every column, or with one column missing
ColumnSets == {AllColumns} \cup {AllColumns \ {c} : c \in AllColumns}

Files ==
    {MissingFile, UnparseableFile}
    \cup {CsvFile(AllColumns, t) : t \in SeqsUpTo(RowPool, MaxRows)}
    \cup {CsvFile(cols, t) : cols \in ColumnSets, t \in SeqsUpTo(RowPool, 1)}

Init == \E f \in Files : Start(f)

Next ==
    \/ FirstRun
    \/ \E S \in SUBSET Range(sectors(df_clean)) : ChangeSectors(S)
    \/ \E S \in SUBSET Range(sizes(df_clean)) : ChangeSizes(S)
    \/ \E r \in RatingChoices : ChangeMinRating(r)

Spec == Init /\ [][Next]_vars

(***************************************************************************)
(* Salary strings: a file of one row whose Salary Estimate is any string   *)
(* of at most MaxLen characters.                                           *)
(***************************************************************************)
SalaryAlphabet == {"$", "K", "-", "1", "2"}

SalaryFile(s) == CsvFile(AllColumns, <<Row(0, "T01", "Acme", "S01", "Large", <<40>>, s)>>)

\* no number of more than MaxDigits digits
ShortNumbers(s) == \A i \in 1..Len(s) : DigitRun(s, i) <= MaxDigits

SalaryStrings == {s \in SeqsUpTo(SalaryAlphabet, MaxLen) : ShortNumbers(s)}

\* strings of the dataset's kind: the Glassdoor form, a bare range, a range
\* after another number, three-digit bounds, a number without a range
SalaryExamples ==
    { <<"$", "8", "0", "K", "-", "$", "1", "2", "0", "K", " ", "(", "G", "l", "a", "s", "s", "d", "o", "o", "r", " ", "e", "s", "t", ".", ")">>,
      <<"$", "5", "0", "K", "-", "$", "9", "0", "K">>,
      <<"1", "2", " ", "$", "1", "K", "-", "$", "2", "K", " ", "(", "E", "m", "p", "l", "o", "y", "e", "r", " ", "e", "s", "t", ".", ")">>,
      <<"$", "1", "1", "1", "K", "-", "$", "1", "8", "1", "K">>,
      <<"S", "a", "l", "a", "r", "y", ":", " ", "7">> }

InitSalary == \E s \in SalaryStrings \cup SalaryExamples : Start(SalaryFile(s))

NextSalary == FirstRun

SpecSalary == InitSalary /\ [][NextSalary]_vars

(***************************************************************************)
(* Long tables: files of up to MaxPageRows rows with distinct job titles,  *)
(* every rating above the slider's default or every second one below it;   *)
(* the first row has a salary range, the others a bare number.             *)
(***************************************************************************)
LongRow(i, low) ==
    Row(0, TitleNames[i], IF i % 3 = 0 THEN "Beta" ELSE "Acme", "S01",
        IF i % 4 = 0 THEN "Small" ELSE "Large",
        IF low /\ i % 2 = 0 THEN <<20>> ELSE <<40>>,
        IF i = 1 THEN <<"$", "1", "K", "-", "$", "2", "K">> ELSE <<"2">>)

LongFile(n, low) == CsvFile(AllColumns, [i \in 1..n |-> LongRow(i, low)])

InitPage == \E n \in 0..MaxPageRows, low \in BOOLEAN : Start(LongFile(n, low))

NextPage ==
    \/ FirstRun
    \/ \E ps \in PageSizeMin..PageSizeMax : ChangePageSize(ps)
    \/ \E pn \in 1..Len(filtered_df) : ChangePage(pn)

SpecPage == InitPage /\ [][NextPage]_vars

\* the ends and the default of the rows-per-page slider
PageSizeSample == {PageSizeMin, PageSizeDefault, PageSizeMax}

NextSession ==
    \/ FirstRun
    \/ \E S \in SUBSET Range(sectors(df_clean)) : ChangeSectors(S)
    \/ \E S \in SUBSET Range(sizes(df_clean)) : ChangeSizes(S)
    \/ \E r \in RatingChoices : ChangeMinRating(r)
    \/ \E ps \in PageSizeSample : ChangePageSize(ps)
    \/ \E pn \in 1..Len(filtered_df) : ChangePage(pn)

SpecSession == InitPage /\ [][NextSession]_vars

(***************************************************************************)
(* Many values: files of up to MaxTopRows rows in which every row either   *)
(* repeats the job title and sector of the first row or brings its own.    *)
(***************************************************************************)
TopRow(i, repeat) ==
    Row(0, IF repeat THEN TitleNames[1] ELSE TitleNames[i],
        "Acme", IF repeat THEN SectorNames[1] ELSE SectorNames[i], "Large", <<40>>,
        <<"2">>)

TopFile(repeats) ==
    CsvFile(AllColumns, [i \in 1..Len(repeats) |-> TopRow(i, repeats[i])])

InitTop == \E repeats \in SeqsUpTo(BOOLEAN, MaxTopRows) : Start(TopFile(repeats))

\* the user selects every sector
NextTop ==
    \/ FirstRun
    \/ ChangeSectors(Range(sectors(df_clean)))

SpecTop == InitTop /\ [][NextTop]_vars

(***************************************************************************)
(* Properties.                                                             *)
(***************************************************************************)
rendered == status = "rendered"

Shown == Val(out)

Positions(s) == 1..Len(s)

\* the record matches the current criteria
Matches(r) ==
    /\ r.Sector \in selected_sectors
    /\ r.Size \in selected_sizes
    /\ r.Rating # <<>> /\ r.Rating[1] >= min_rating

\* C1: the filtered view is exactly the records of the cleaned dataset whose
\* sector is selected, whose size is selected and whose rating is at least
\* min_rating, in their original order (index labels increase); no sector or
\* no size selected gives no record; a record with a missing size is never in
\* the view.
C1_FilterExact ==
    rendered =>
        /\ \A i \in Positions(filtered_df) :
              /\ Matches(filtered_df[i])
              /\ \E j \in Positions(df_clean) : df_clean[j] = filtered_df[i]
        /\ \A j \in Positions(df_clean) :
              Matches(df_clean[j]) =>
                  \E i \in Positions(filtered_df) : filtered_df[i] = df_clean[j]
        /\ \A i, k \in Positions(filtered_df) :
              i < k => filtered_df[i].idx < filtered_df[k].idx
        /\ (selected_sectors = {} \/ selected_sizes = {}) => filtered_df = <<>>
        /\ \A i \in Positions(filtered_df) : filtered_df[i].Size # ""

\* a rerun with changed criteria kept one of two cleaned records, the other's
\* rating being below the threshold or its size missing, and a record whose
\* rating equals the threshold is in the view
C1_Witness ==
    /\ rendered
    /\ Len(df_clean) = 2
    /\ Len(filtered_df) = 1
    /\ min_rating # RatingDefault
    /\ filtered_df[1].Rating = <<min_rating>>

\* the position of a column in the table
ColumnAt(c) ==
    CHOOSE k \in Positions(available_columns(file.columns)) :
        available_columns(file.columns)[k] = c

\* the source row lacks job title, sector or rating
Lacks(r) == r.JobTitle = "" \/ r.Sector = "" \/ r.Rating = <<>>

\* C2: cleaning drops exactly the source rows that lack job title, sector or
\* rating (the cleaned count is the original count less the number of such
\* rows), and in no state after any change of the criteria does such a record
\* appear in the view, in an aggregate or on the page.
C2_CleanExact ==
    rendered =>
        /\ Len(Val(df).rows) = Len(file.rows)
        /\ Len(Val(df).rows) - Len(df_clean)
              = Cardinality({i \in Positions(file.rows) : Lacks(file.rows[i])})
        /\ \A i \in Positions(df_clean) :
              /\ ~Lacks(df_clean[i])
              /\ \E j \in Positions(file.rows) : file.rows[j].idx = df_clean[i].idx
        /\ \A i \in Positions(filtered_df) : ~Lacks(filtered_df[i])
        /\ \A i \in Positions(Shown.job_counts) : Shown.job_counts[i][1] # ""
        /\ \A i \in Positions(Shown.sector_counts) : Shown.sector_counts[i][1] # ""
        /\ Shown.found <= Len(df_clean)
        /\ SumSeq([i \in Positions(Shown.job_counts) |-> Shown.job_counts[i][2]])
              <= Len(df_clean)
        /\ Shown.table # <<>> =>
              \A i \in Positions(Shown.table[1]) :
                  /\ Shown.table[1][i][ColumnAt("Job Title")] # ""
                  /\ Shown.table[1][i][ColumnAt("Rating")] # <<>>
                  /\ Shown.table[1][i][ColumnAt("Sector")] # ""

\* rows were dropped, a record is shown, and the criteria have been changed
C2_Witness ==
    /\ rendered
    /\ Len(df_clean) < Len(file.rows)
    /\ Len(filtered_df) >= 1
    /\ Shown.table # <<>>
    /\ min_rating # RatingDefault

\* the file cannot give the dashboard its data: it is missing, unparseable,
\* or parseable without a column the script subscripts
Required == {"Job Title", "Company Name", "Salary Estimate", "Rating", "Sector", "Size"}

Unusable(f) == ~f.exists \/ ~f.parseable \/ ~(Required \subseteq f.columns)

\* C3: when the file is missing, unparseable or parseable but malformed, the
\* run ends in the "no data" state with load_data having returned None and no
\* later step executed, never in an uncaught exception.
C3_NoUncaughtException ==
    /\ status # "exception"
    /\ (status # "init" /\ Unusable(file)) =>
          /\ status = "nodata"
          /\ df = <<>>
          /\ df_clean = <<>> /\ filtered_df = <<>> /\ out = <<>>

\* the file gives every column and at least one salary string
WellFormed(f) ==
    /\ ~Unusable(f)
    /\ f.rows # <<>> => \E i \in Positions(f.rows) : f.rows[i].SalaryEstimate # <<>>

\* C7: a run whose criteria match no record still completes (a well-formed
\* file never ends in an exception or in "no data"), and it shows count 0, 0
\* companies, NaN means, empty top-N and group results, the warning instead
\* of the trend chart, 0 pages, no page selector and no table.
C7_EmptyResult ==
    /\ (WellFormed(file) /\ status # "init") => rendered
    /\ (rendered /\ filtered_df = <<>>) =>
          /\ Shown.found = 0
          /\ Shown.companies = 0
          /\ Shown.avg_rating = <<>>
          /\ Shown.avg_salary = <<>>
          /\ Shown.job_counts = <<>>
          /\ Shown.sector_counts = <<>>
          /\ Shown.size_salary = <<>>
          /\ Shown.trend = "warning"
          /\ Shown.total_pages = 0
          /\ page_number = 0
          /\ Shown.table = <<>>

\* cleaned records exist, sectors and sizes are selected, none matches
C7_Witness ==
    /\ rendered
    /\ df_clean # <<>>
    /\ selected_sectors # {} /\ selected_sizes # {}
    /\ filtered_df = <<>>
    /\ Shown.trend = "warning"

\* the records of the view with this size whose avg_salary is defined
DefinedIn(z) ==
    {i \in Positions(filtered_df) :
        filtered_df[i].Size = z /\ filtered_df[i].Avg_Salary # <<>>}

RECURSIVE SumOver(_)
SumOver(I) ==
    IF I = {} THEN 0
    ELSE LET i == CHOOSE x \in I : TRUE
         IN  filtered_df[i].Avg_Salary[1] + SumOver(I \ {i})

\* C9: the size/salary aggregate has exactly one entry for each size that
\* occurs in the view and none for any other size (selected or not); an
\* entry's value is the mean of the defined avg_salary values of its records
\* (NaN when none is defined); the entries are in descending order of mean,
\* the NaN entries last.
C9_GroupMean ==
    rendered =>
        LET G == Shown.size_salary
        IN  /\ {G[k][1] : k \in Positions(G)}
                  = {filtered_df[i].Size : i \in Positions(filtered_df)}
            /\ \A k, l \in Positions(G) : k # l => G[k][1] # G[l][1]
            /\ \A k \in Positions(G) :
                  IF DefinedIn(G[k][1]) = {} THEN G[k][2] = <<>>
                  ELSE /\ G[k][2] # <<>>
                       /\ G[k][2][1] * Cardinality(DefinedIn(G[k][1]))
                             = SumOver(DefinedIn(G[k][1])) * G[k][2][2]
            /\ \A k, l \in Positions(G) :
                  k < l =>
                      /\ G[l][2] # <<>> => G[k][2] # <<>>
                      /\ (G[k][2] # <<>> /\ G[l][2] # <<>>) =>
                            G[k][2][1] * G[l][2][2] >= G[l][2][1] * G[k][2][2]

\* two groups with different means, in the order of their means and not of
\* their names
C9_Witness ==
    /\ rendered
    /\ Len(Shown.size_salary) = 2
    /\ Shown.size_salary[1][1] = "Small"
    /\ Shown.size_salary[2][1] = "Large"
    /\ Shown.size_salary[2][2] # <<>>
    /\ Shown.size_salary[1][2][1] * Shown.size_salary[2][2][2]
          > Shown.size_salary[2][2][1] * Shown.size_salary[1][2][2]

\* the only row of a one-row file, after the run
OnlyRow == Val(df).rows[1]

RawSalary == file.rows[1].SalaryEstimate

Digit(c) == c \in {"0", "1", "2", "3", "4", "5", "6", "7", "8", "9"}

\* s[i..j] is a decimal numeral
Numeral(s, i, j) == i <= j /\ j <= Len(s) /\ \A k \in i..j : Digit(s[k])

\* $<a>K-$<b>K stands in s from position i, a being s[i+1..p] and b s[p+4..q]
RangeStands(s, i, p, q) ==
    /\ i < p /\ p + 4 <= q /\ q + 1 <= Len(s)
    /\ s[i] = "$"
    /\ Numeral(s, i + 1, p)
    /\ s[p + 1] = "K" /\ s[p + 2] = "-" /\ s[p + 3] = "$"
    /\ Numeral(s, p + 4, q)
    /\ s[q + 1] = "K"

\* the positions of s that hold a dollar sign
Dollars(s) == {i \in Positions(s) : s[i] = "$"}

\* $<a>K-$<b>K stands in s from position i
RangeAt(s, i) == \E p, q \in Positions(s) : RangeStands(s, i, p, q)

HasRange(s) == \E i \in Dollars(s) : RangeAt(s, i)

\* s[i..j] is the first decimal integer of s: no digit before it, none right
\* after it
FirstInteger(s, i, j) ==
    /\ Numeral(s, i, j)
    /\ \A k \in 1..(i - 1) : ~Digit(s[k])
    /\ j = Len(s) \/ ~Digit(s[j + 1])

\* C4: salary_max is 1000 times the second number of the $<a>K-$<b>K pattern
\* (b*1000 exactly for a string that starts with $<a>K-$<b>K, the upper
\* number of the leftmost occurrence in general) and undefined when the
\* pattern does not occur; salary_min is 1000 times the first decimal integer
\* anywhere in the string and undefined when the string has no digit.
C4_SalaryBounds ==
    (rendered /\ Len(file.rows) = 1) =>
        LET s == RawSalary
        IN  /\ \A p, q \in Positions(s) :
                  RangeStands(s, 1, p, q) =>
                      OnlyRow.Salary_Max = <<ToNumber(SubSeq(s, p + 4, q)) * 1000>>
            /\ \A i \in Dollars(s) :
                  (\A i2 \in Dollars(s) : RangeAt(s, i2) => i <= i2) =>
                      \A p, q \in Positions(s) :
                          RangeStands(s, i, p, q) =>
                              OnlyRow.Salary_Max = <<ToNumber(SubSeq(s, p + 4, q)) * 1000>>
            /\ ~HasRange(s) => OnlyRow.Salary_Max = <<>>
            /\ \A i, j \in Positions(s) :
                  FirstInteger(s, i, j) =>
                      OnlyRow.Salary_Min = <<ToNumber(SubSeq(s, i, j)) * 1000>>
            /\ (\A k \in Positions(s) : ~Digit(s[k])) => OnlyRow.Salary_Min = <<>>

\* a range after another number: the upper bound is the range's second
\* number, the lower bound is not the range's first
C4_Witness ==
    /\ rendered
    /\ Len(file.rows) = 1
    /\ \E i, p, q \in Positions(RawSalary) :
          /\ RangeStands(RawSalary, i, p, q)
          /\ OnlyRow.Salary_Max = <<ToNumber(SubSeq(RawSalary, p + 4, q)) * 1000>>
          /\ OnlyRow.Salary_Min # <<ToNumber(SubSeq(RawSalary, i + 1, p)) * 1000>>
          /\ OnlyRow.Salary_Max # OnlyRow.Salary_Min

\* C5: avg_salary is defined exactly when salary_min and salary_max both are,
\* and is then their half sum; a string without a digit leaves all three
\* undefined; a string with a digit but without the pattern leaves salary_max
\* and avg_salary undefined and salary_min defined.
C5_AvgSalary ==
    (rendered /\ Len(file.rows) = 1) =>
        LET s == RawSalary
            r == OnlyRow
        IN  /\ r.Avg_Salary # <<>> <=> (r.Salary_Min # <<>> /\ r.Salary_Max # <<>>)
            /\ r.Avg_Salary # <<>> =>
                  2 * r.Avg_Salary[1] = r.Salary_Min[1] + r.Salary_Max[1]
            /\ (\A k \in Positions(s) : ~Digit(s[k])) =>
                  r.Salary_Min = <<>> /\ r.Salary_Max = <<>> /\ r.Avg_Salary = <<>>
            /\ ((\E k \in Positions(s) : Digit(s[k])) /\ ~HasRange(s)) =>
                  r.Salary_Min # <<>> /\ r.Salary_Max = <<>> /\ r.Avg_Salary = <<>>

\* a string with a digit and no range
C5_Witness ==
    /\ rendered
    /\ Len(file.rows) = 1
    /\ OnlyRow.Salary_Min # <<>>
    /\ OnlyRow.Salary_Max = <<>>
    /\ OnlyRow.Avg_Salary = <<>>

\* the rows of the view as the table shows them
ViewShown == ProjectAll(filtered_df, file.columns)

RECURSIVE Pages(_)
\* the pages 1..n of the current view and page size, one after the other
Pages(n) ==
    IF n = 0 THEN <<>>
    ELSE Pages(n - 1) \o PageRows(filtered_df, file.columns, n, page_size)

\* C6: the number of pages is ceil(L / page_size), 0 for an empty view; the
\* selectable pages are exactly 1..total_pages; the page shown holds the
\* view's records from (page_number-1)*page_size up to, not including,
\* min(page_number*page_size, L), in view order; so a page is never empty,
\* every page but the last holds page_size records, and the pages in order
\* make up the view.
C6_Pagination ==
    rendered =>
        LET L  == Len(filtered_df)
            tp == Shown.total_pages
            lo == (page_number - 1) * page_size
            hi == IF page_number * page_size < L THEN page_number * page_size ELSE L
        IN  /\ page_size \in 5..50
            /\ tp * page_size >= L
            /\ (tp - 1) * page_size < L
            /\ L = 0 => tp = 0
            /\ tp = 0 => page_number = 0 /\ Shown.table = <<>>
            /\ tp > 0 =>
                  /\ page_number \in 1..tp
                  /\ Shown.table # <<>>
                  /\ Len(Shown.table[1]) = hi - lo
                  /\ \A k \in 1..(hi - lo) : Shown.table[1][k] = ViewShown[lo + k]
                  /\ Len(Shown.table[1]) >= 1
                  /\ page_number < tp => Len(Shown.table[1]) = page_size
            /\ Shown.page_options = 1..tp
            /\ Pages(tp) = ViewShown

\* eleven records at five per page: the third page holds the eleventh record
C6_Witness ==
    /\ rendered
    /\ Len(filtered_df) = 11
    /\ page_size = 5
    /\ Shown.total_pages = 3
    /\ page_number = 3
    /\ Shown.table = << <<ViewShown[11]>> >>

\* the values of a field in the view, in view order
TitlesInView == [i \in Positions(filtered_df) |-> filtered_df[i].JobTitle]

SectorsInView == [i \in Positions(filtered_df) |-> filtered_df[i].Sector]

Occurrences(col, v) == Cardinality({i \in Positions(col) : col[i] = v})

FirstSeen(col, v) == CHOOSE i \in Positions(col) : col[i] = v /\ \A j \in 1..(i - 1) : col[j] # v

Smaller(a, b) == IF a <= b THEN a ELSE b

\* counts is the top n of col by count; ties: whether equal counts must stand
\* in the order in which their values are first met
TopN(counts, col, n, ties) ==
    /\ Len(counts) = Smaller(n, Cardinality(Range(col)))
    /\ \A k \in Positions(counts) :
          /\ counts[k][2] = Occurrences(col, counts[k][1])
          /\ counts[k][2] >= 1
    /\ \A k, l \in Positions(counts) :
          k < l =>
              /\ counts[k][1] # counts[l][1]
              /\ counts[k][2] >= counts[l][2]
              /\ (ties /\ counts[k][2] = counts[l][2]) =>
                    FirstSeen(col, counts[k][1]) < FirstSeen(col, counts[l][1])
    /\ \A v \in Range(col) :
          (\A k \in Positions(counts) : counts[k][1] # v) =>
              \A k \in Positions(counts) :
                  /\ Occurrences(col, v) <= counts[k][2]
                  /\ (ties /\ Occurrences(col, v) = counts[k][2]) =>
                        FirstSeen(col, counts[k][1]) < FirstSeen(col, v)

C10_FrameUnchanged ==
    [][ rendered =>
          /\ df' = df
          /\ df_clean' = df_clean
          /\ filtered_df'
                = SelectSeq(df_clean,
                            LAMBDA r : /\ r.Sector \in selected_sectors'
                                       /\ r.Size \in selected_sizes'
                                       /\ r.Rating[1] >= min_rating')
          /\ Val(out').total_records = Len(file.rows)
          /\ Val(out').csv = ProjectAll(filtered_df', file.columns)
      ]_vars

\* after changes of the sizes, the rating, the page size and the page: a view
\* smaller than the cleaned dataset, shown on its second page
C10_Witness ==
    /\ rendered
    /\ selected_sizes # DefaultSizes(df_clean)
    /\ min_rating # RatingDefault
    /\ page_size # PageSizeDefault
    /\ page_number = 2
    /\ Len(filtered_df) < Len(df_clean)
    /\ Len(df_clean) = Len(file.rows)

====
